---- MODULE Spec2Model ----
(***************************************************************************)
(* A model of download_pdfs.py: main() fans a batch of URLs out to a       *)
(* ThreadPoolExecutor; every work item runs download_one, which resolves a *)
(* destination name, fetches the URL through a retrying session, streams   *)
(* the body to "<dest>.part" and renames it to the final name.             *)
(*                                                                         *)
(* The destination directory is modelled as on a POSIX filesystem: a set   *)
(* of (name, inode) links and the content of each inode.  An open file     *)
(* handle designates an inode, not a name, so a handle keeps writing to    *)
(* its inode after the name was renamed or unlinked by another thread.     *)
(* Every filesystem call and every network call of download_one is one     *)
(* step; the threads of the pool interleave between steps.                 *)
(***************************************************************************)
EXTENDS Integers, Sequences, FiniteSets, TLC

\* ------------------------------------------------------------------ bounds

\* Largest batch (number of non-blank lines of the URL file).
MaxReq == 2

\* Number of 8192-byte chunks r.iter_content yields for a complete body.
MaxChunks == 2

\* ----------------------------------------------------------- program constants

\* create_session(retries=5, ...): Retry(total=retries).
retries == 5

\* ------------------------------------------------------------------ inputs

\* A URL, as far as the program looks at it: whether urlparse accepts it, the
\* host (what makes two URLs distinct) and the last path segment, already
\* percent-decoded, as a sequence of tokens (<<>>: the URL ends in "/").
UrlA1 == [valid |-> TRUE, host |-> "h1", leaf |-> <<"a", ".pdf">>]
UrlA2 == [valid |-> TRUE, host |-> "h2", leaf |-> <<"a", ".pdf">>]
UrlSlash == [valid |-> TRUE, host |-> "h3", leaf |-> <<>>]
UrlBad == [valid |-> FALSE, host |-> "[", leaf |-> <<>>]

URLS == {UrlA1, UrlA2, UrlSlash, UrlBad}

\* The batches: every sequence of 0..MaxReq URLs.
Batches == UNION {[1..n -> URLS] : n \in 0..MaxReq}

\* The values of -w: 0 (not positive), and 1 .. one more than the largest batch.
WorkerArgs == 0..(MaxReq + 1)

\* The body the server holds for a URL: MaxChunks chunks, each marked with the
\* URL's host and its position.
Body(u) == [k \in 1..MaxChunks |-> <<u.host, k>>]

\* Content of a file that was in the directory before the run.
OldContent == <<<<"old", 1>>>>

\* A hole: the bytes a write beyond the end of a file leaves before it.
Hole == <<"hole", 0>>

\* The directories the run may start with: (name, inode) links; the inodes of
\* pre-existing files are negative.
InitialDirs ==
    { {},
      {<<(<<"a", ".pdf">>), -1>>},
      {<<(<<"a", ".pdf">>), -1>>, <<(<<"a", "_", "1", ".pdf">>), -2>>} }

Inodes == (-2)..MaxReq

\* ------------------------------------------------------------------ names

IdxTok == <<"1", "2", "3", "4", "5", "6", "7", "8", "9">>

Suffixes == {".pdf", ".part"}

\* Path.suffix: the last extension of the name, <<>> when there is none.
suffix(name) ==
    IF Len(name) > 1 /\ name[Len(name)] \in Suffixes
    THEN <<name[Len(name)]>> ELSE <<>>

\* Path.stem: the name without its suffix.
stem(name) == SubSeq(name, 1, Len(name) - Len(suffix(name)))

\* filename_from_url: the last path segment, or file_<hash(url)>.pdf when it
\* is empty (the hash is modelled by the host, the part that tells URLs apart).
\* Defined on the URLs urlparse accepts; on the others it raises ValueError.
filename_from_url(u) ==
    IF u.leaf = <<>> THEN <<"file_", u.host, ".pdf">> ELSE u.leaf

\* path.with_name(f"{base}_{i}{suffix}") of resolve_collision; i = 0 is path.
candidate(name, i) ==
    IF i = 0 THEN name ELSE stem(name) \o <<"_", IdxTok[i]>> \o suffix(name)

\* dest.with_name(dest.name + ".part")
temp_of(dest) == dest \o <<".part">>

IsPart(name) == Len(name) > 0 /\ name[Len(name)] = ".part"

\* ------------------------------------------------------------------ state

VARIABLES
    urls,        \* the batch: urls[r] is the URL of request r
    argW,        \* args.workers
    workers,     \* max_workers of the pool (0 before the pool exists)
    mainpc,      \* where main() is
    pc,          \* pc[r]: where the download_one call of request r is
    idx,         \* idx[r]: i of resolve_collision
    dest,        \* dest[r]: the resolved final name (<<>> before)
    attempts,    \* attempts[r]: the responses to the HTTP attempts of session.get
    fd,          \* fd[r]: inode of the open temporary file (0: none)
    off,         \* off[r]: chunks written through fd[r]
    err,         \* err[r]: the exception caught by download_one ("" none)
    ret,         \* ret[r]: the future's result
    dir,         \* the destination directory: a set of <<name, inode>>
    content,     \* content[i]: the chunks of inode i
    yielded,     \* the futures as_completed has yielded, in order
    results,     \* main's list of (url, info) of the failed downloads
    swallowed    \* the requests whose cleanup swallowed an error of unlink

vars == <<urls, argW, workers, mainpc, pc, idx, dest, attempts, fd, off, err,
          ret, dir, content, yielded, results, swallowed>>

Reqs == 1..Len(urls)

NoRet == [kind |-> "none", ok |-> FALSE, info |-> <<>>, detail |-> ""]

Exists(name) == \E l \in dir : l[1] = name

InoOf(name) == (CHOOSE l \in dir : l[1] = name)[2]

Init ==
    /\ urls \in Batches
    /\ argW \in WorkerArgs
    /\ workers = 0
    /\ mainpc = "start"
    /\ pc = [r \in Reqs |-> "unsubmitted"]
    /\ idx = [r \in Reqs |-> 0]
    /\ dest = [r \in Reqs |-> <<>>]
    /\ attempts = [r \in Reqs |-> <<>>]
    /\ fd = [r \in Reqs |-> 0]
    /\ off = [r \in Reqs |-> 0]
    /\ err = [r \in Reqs |-> ""]
    /\ ret = [r \in Reqs |-> NoRet]
    /\ dir \in InitialDirs
    /\ content = [i \in Inodes |-> IF \E l \in dir : l[2] = i THEN OldContent ELSE <<>>]
    /\ yielded = <<>>
    /\ results = <<>>
    /\ swallowed = {}


\* ------------------------------------------------------------ the session

\* Retry(status_forcelist=[429, 500, 502, 503, 504]).
status_forcelist == {429, 500, 502, 503, 504}

\* urllib3's Retry.RETRY_AFTER_STATUS_CODES: with respect_retry_after_header
\* left at its default (True), a response of one of these statuses that
\* carries a Retry-After header is retried while total is not 0.
RETRY_AFTER_STATUS_CODES == {413, 429, 503}

\* One response of the server: an HTTP status (0: a connection-level failure:
\* connect timeout, read timeout before the headers, reset, DNS) and whether
\* it carries a Retry-After header.
Plain(st) == [status |-> st, retry_after |-> FALSE]

WithRetryAfter(st) == [status |-> st, retry_after |-> TRUE]

\* What the server does at each attempt for one URL.  The last entry repeats.
Scripts ==
    { <<Plain(200)>>, <<Plain(404)>>, <<Plain(503), Plain(200)>>,
      <<Plain(503)>>, <<Plain(0)>>, <<WithRetryAfter(413)>> }

Resp(script, k) == script[IF k < Len(script) THEN k ELSE Len(script)]

\* One pass of urllib3's retry loop: attempt k with `total` retries left.  A
\* connection-level failure or a status of the forcelist uses up one retry and
\* raises once the count falls below 0; a Retry-After response is retried
\* while total is not 0; any other response is returned.
RECURSIVE urlopen(_, _, _)
urlopen(script, k, total) ==
    LET resp == Resp(script, k)
    IN  IF resp.status = 0 \/ resp.status \in status_forcelist
        THEN IF total - 1 < 0
             THEN [exc |-> IF resp.status = 0 THEN "ConnectionError"
                                              ELSE "RetryError",
                   status |-> resp.status, attempts |-> k]
             ELSE urlopen(script, k + 1, total - 1)
        ELSE IF /\ total # 0
                /\ resp.retry_after
                /\ resp.status \in RETRY_AFTER_STATUS_CODES
             THEN urlopen(script, k + 1, total - 1)
             ELSE [exc |-> "", status |-> resp.status, attempts |-> k]

\* A session whose Retry allows one retry more than configured.
session_get_OneMoreRetry(script) ==
    LET g == urlopen(script, 1, retries + 1)
    IN  IF g.exc = "" /\ g.status >= 400
        THEN [g EXCEPT !.exc = "HTTPError"]
        ELSE g

\* session.get(url, stream=True, timeout=timeout) followed by
\* r.raise_for_status(): the exception download_one catches ("": none).
session_get(script) ==
    LET g == urlopen(script, 1, retries)
    IN  IF g.exc = "" /\ g.status >= 400
        THEN [g EXCEPT !.exc = "HTTPError"]
        ELSE g

\* ------------------------------------------------------------- the pool

\* A pool sized by the batch alone, -w ignored.
EffectiveWorkers_IgnoringW(w, n) == IF n > 1 THEN n ELSE 1

\* workers = max(1, min(args.workers, len(urls)))
EffectiveWorkers(w, n) ==
    LET m == IF w < n THEN w ELSE n
    IN  IF m > 1 THEN m ELSE 1

\* The work items a pool thread is executing.
Running == {r \in Reqs : pc[r] \notin {"unsubmitted", "queued", "returned", "raised"}}

\* The work items whose future is done.
Finished == {r \in Reqs : pc[r] \in {"returned", "raised"}}

\* ---------------------------------------------------------------- main

\* main() up to the submission of the batch: an empty batch returns at once;
\* otherwise the pool is created and every URL submitted.
MainStart ==
    /\ mainpc = "start"
    /\ IF urls = <<>>
       THEN /\ mainpc' = "returned"
            /\ UNCHANGED <<workers, pc>>
       ELSE /\ mainpc' = "collect"
            /\ workers' = EffectiveWorkers(argW, Len(urls))
            /\ pc' = [r \in Reqs |-> "queued"]
    /\ UNCHANGED <<urls, argW, idx, dest, attempts, fd, off, err, ret, dir,
                   content, yielded, results, swallowed>>

\* One turn of the as_completed loop: a finished future not yet yielded is
\* yielded and fut.result() returns its tuple or raises its exception.
Collect(r) ==
    /\ mainpc = "collect"
    /\ r \in Finished
    /\ \A k \in 1..Len(yielded) : yielded[k] # r
    /\ yielded' = Append(yielded, r)
    /\ IF ret[r].kind = "exc"
       THEN /\ mainpc' = "unwinding"
            /\ UNCHANGED results
       ELSE /\ mainpc' = mainpc
            /\ results' = IF ret[r].ok THEN results
                          ELSE Append(results, <<urls[r], ret[r].detail>>)
    /\ UNCHANGED <<urls, argW, workers, pc, idx, dest, attempts, fd, off, err,
                   ret, dir, content, swallowed>>

\* The loop ends when every future was yielded; the pool's __exit__ finds every
\* thread idle and main prints the summary.
MainFinish ==
    /\ mainpc = "collect"
    /\ Len(yielded) = Len(urls)
    /\ mainpc' = "done"
    /\ UNCHANGED <<urls, argW, workers, pc, idx, dest, attempts, fd, off, err,
                   ret, dir, content, yielded, results, swallowed>>

\* An exception raised by fut.result() leaves the with block: the pool's
\* __exit__ waits for the queued and running work items, then main() ends with
\* the exception.
MainCrash ==
    /\ mainpc = "unwinding"
    /\ Finished = Reqs
    /\ mainpc' = "crashed"
    /\ UNCHANGED <<urls, argW, workers, pc, idx, dest, attempts, fd, off, err,
                   ret, dir, content, yielded, results, swallowed>>

\* ------------------------------------------------------------ download_one

\* f.write(chunk) at position pos of a file opened "wb": the chunk replaces
\* what is there, or extends the file, leaving a hole when the file was
\* truncated below the handle's position meanwhile.
WriteAt(c, pos, chunk) ==
    IF pos <= Len(c)
    THEN [c EXCEPT ![pos] = chunk]
    ELSE c \o [k \in 1..(pos - 1 - Len(c)) |-> Hole] \o <<chunk>>

\* A pool thread takes the oldest queued work item and enters download_one:
\* get_session() and filename_from_url(url).  urlparse raises ValueError on a
\* malformed URL; nothing catches it there, so the future holds the exception.
Start(r) ==
    /\ pc[r] = "queued"
    /\ \A q \in Reqs : q < r => pc[q] # "queued"
    /\ Cardinality(Running) < workers
    /\ IF urls[r].valid
       THEN /\ pc' = [pc EXCEPT ![r] = "resolve"]
            /\ ret' = ret
       ELSE /\ pc' = [pc EXCEPT ![r] = "raised"]
            /\ ret' = [ret EXCEPT ![r] = [kind |-> "exc", ok |-> FALSE,
                                          info |-> <<>>, detail |-> "ValueError"]]
    /\ UNCHANGED <<urls, argW, workers, mainpc, idx, dest, attempts, fd, off,
                   err, dir, content, yielded, results, swallowed>>

\* A resolve_collision whose counter advances by two.
Resolve_SkipByTwo(r) ==
    /\ pc[r] = "resolve"
    /\ LET c == candidate(filename_from_url(urls[r]), idx[r])
       IN  IF Exists(c)
           THEN /\ idx' = [idx EXCEPT ![r] = idx[r] + 2]
                /\ UNCHANGED <<dest, pc>>
           ELSE /\ dest' = [dest EXCEPT ![r] = c]
                /\ pc' = [pc EXCEPT ![r] = "get"]
                /\ idx' = idx
    /\ UNCHANGED <<urls, argW, workers, mainpc, attempts, fd, off, err, ret,
                   dir, content, yielded, results, swallowed>>

\* One exists() probe of resolve_collision: path itself (i = 0), then
\* base_1, base_2, ...; the first name with no file is the destination.
Resolve(r) ==
    /\ pc[r] = "resolve"
    /\ LET c == candidate(filename_from_url(urls[r]), idx[r])
       IN  IF Exists(c)
           THEN /\ idx' = [idx EXCEPT ![r] = idx[r] + 1]
                /\ UNCHANGED <<dest, pc>>
           ELSE /\ dest' = [dest EXCEPT ![r] = c]
                /\ pc' = [pc EXCEPT ![r] = "get"]
                /\ idx' = idx
    /\ UNCHANGED <<urls, argW, workers, mainpc, attempts, fd, off, err, ret,
                   dir, content, yielded, results, swallowed>>

\* session.get is called.
GetBegin(r) ==
    /\ pc[r] = "get"
    /\ pc' = [pc EXCEPT ![r] = "fetching"]
    /\ UNCHANGED <<urls, argW, workers, mainpc, idx, dest, attempts, fd, off,
                   err, ret, dir, content, yielded, results, swallowed>>

\* session.get returns or raises, after the attempts the server's behaviour
\* and the Retry policy give; raise_for_status() raises on a 4xx/5xx status.
GetEnd(r) ==
    /\ pc[r] = "fetching"
    /\ \E s \in Scripts :
         LET g == session_get(s)
         IN  /\ attempts' = [attempts EXCEPT
                               ![r] = [k \in 1..g.attempts |-> Resp(s, k)]]
             /\ err' = [err EXCEPT ![r] = g.exc]
             /\ pc' = [pc EXCEPT ![r] = IF g.exc = "" THEN "open" ELSE "cleanup"]
    /\ UNCHANGED <<urls, argW, workers, mainpc, idx, dest, fd, off, ret, dir,
                   content, yielded, results, swallowed>>

\* open(temp, "wb"): creates the file, or truncates the file already at that
\* name; or fails (permission denied, ...).
Open(r) ==
    /\ pc[r] = "open"
    /\ LET t == temp_of(dest[r])
       IN  \/ /\ Exists(t)
              /\ fd' = [fd EXCEPT ![r] = InoOf(t)]
              /\ content' = [content EXCEPT ![InoOf(t)] = <<>>]
              /\ pc' = [pc EXCEPT ![r] = "write"]
              /\ UNCHANGED <<dir, err>>
           \/ /\ ~Exists(t)
              /\ fd' = [fd EXCEPT ![r] = r]
              /\ dir' = dir \cup {<<t, r>>}
              /\ content' = [content EXCEPT ![r] = <<>>]
              /\ pc' = [pc EXCEPT ![r] = "write"]
              /\ UNCHANGED err
           \/ /\ err' = [err EXCEPT ![r] = "PermissionError"]
              /\ pc' = [pc EXCEPT ![r] = "cleanup"]
              /\ UNCHANGED <<fd, dir, content>>
    /\ UNCHANGED <<urls, argW, workers, mainpc, idx, dest, attempts, off, ret,
                   yielded, results, swallowed>>

\* One turn of the iter_content loop: the next chunk is written at the
\* handle's position.  After the last chunk both with blocks are left: the
\* file is closed.
WriteChunk(r) ==
    /\ pc[r] = "write"
    /\ content' = [content EXCEPT
                     ![fd[r]] = WriteAt(@, off[r] + 1, Body(urls[r])[off[r] + 1])]
    /\ IF off[r] + 1 = MaxChunks
       THEN /\ pc' = [pc EXCEPT ![r] = "rename"]
            /\ fd' = [fd EXCEPT ![r] = 0]
            /\ off' = [off EXCEPT ![r] = 0]
       ELSE /\ off' = [off EXCEPT ![r] = off[r] + 1]
            /\ UNCHANGED <<pc, fd>>
    /\ UNCHANGED <<urls, argW, workers, mainpc, idx, dest, attempts, err, ret,
                   dir, yielded, results, swallowed>>

\* The stream breaks before the body is complete or the read timeout expires
\* (iter_content raises), or f.write fails (disk full): the with block closes
\* the file on the way out.
StreamFail(r) ==
    /\ pc[r] = "write"
    /\ \E e \in {"ChunkedEncodingError", "ReadTimeout", "OSError"} :
         err' = [err EXCEPT ![r] = e]
    /\ pc' = [pc EXCEPT ![r] = "cleanup"]
    /\ fd' = [fd EXCEPT ![r] = 0]
    /\ off' = [off EXCEPT ![r] = 0]
    /\ UNCHANGED <<urls, argW, workers, mainpc, idx, dest, attempts, ret, dir,
                   content, yielded, results, swallowed>>

\* temp.replace(dest): the link of temp becomes the link of dest, replacing
\* any file at dest; FileNotFoundError when there is no file at temp; or the
\* rename fails for a reason of the filesystem's.  On success download_one
\* returns (url, True, str(dest)).
Rename(r) ==
    /\ pc[r] = "rename"
    /\ LET t == temp_of(dest[r])
       IN  \/ /\ Exists(t)
              /\ dir' = {l \in dir : l[1] \notin {t, dest[r]}}
                          \cup {<<dest[r], InoOf(t)>>}
              /\ pc' = [pc EXCEPT ![r] = "returned"]
              /\ ret' = [ret EXCEPT ![r] = [kind |-> "ok", ok |-> TRUE,
                                            info |-> dest[r], detail |-> ""]]
              /\ UNCHANGED err
           \/ /\ ~Exists(t)
              /\ err' = [err EXCEPT ![r] = "FileNotFoundError"]
              /\ pc' = [pc EXCEPT ![r] = "cleanup"]
              /\ UNCHANGED <<dir, ret>>
           \/ /\ Exists(t)
              /\ err' = [err EXCEPT ![r] = "RenameError"]
              /\ pc' = [pc EXCEPT ![r] = "cleanup"]
              /\ UNCHANGED <<dir, ret>>
    /\ UNCHANGED <<urls, argW, workers, mainpc, idx, dest, attempts, fd, off,
                   content, yielded, results, swallowed>>

\* An except branch that returns the failure without deleting the temporary file.
Cleanup_NoUnlink(r) ==
    /\ pc[r] = "cleanup"
    /\ pc' = [pc EXCEPT ![r] = "returned"]
    /\ ret' = [ret EXCEPT ![r] = [kind |-> "ok", ok |-> FALSE, info |-> <<>>,
                                  detail |-> err[r]]]
    /\ err' = [err EXCEPT ![r] = ""]
    /\ UNCHANGED <<urls, argW, workers, mainpc, idx, dest, attempts, fd, off,
                   dir, content, yielded, results, swallowed>>

\* An except branch without the inner try: the error of unlink replaces the
\* original one in the returned detail.
Cleanup_SurfaceUnlinkError(r) ==
    /\ pc[r] = "cleanup"
    /\ LET t == temp_of(dest[r])
       IN  \/ /\ dir' = {l \in dir : l[1] # t}
              /\ ret' = [ret EXCEPT ![r] = [kind |-> "ok", ok |-> FALSE,
                                            info |-> <<>>, detail |-> err[r]]]
              /\ UNCHANGED swallowed
           \/ /\ Exists(t)
              /\ dir' = dir
              /\ ret' = [ret EXCEPT ![r] = [kind |-> "ok", ok |-> FALSE,
                                            info |-> <<>>, detail |-> "UnlinkError"]]
              /\ swallowed' = swallowed \cup {r}
    /\ pc' = [pc EXCEPT ![r] = "returned"]
    /\ err' = [err EXCEPT ![r] = ""]
    /\ UNCHANGED <<urls, argW, workers, mainpc, idx, dest, attempts, fd, off,
                   content, yielded, results>>

\* The except branch: if temp.exists(): temp.unlink(), an error of either
\* swallowed (the file then stays); then return (url, False, str(e)).
Cleanup(r) ==
    /\ pc[r] = "cleanup"
    /\ LET t == temp_of(dest[r])
       IN  \/ /\ dir' = {l \in dir : l[1] # t}
              /\ UNCHANGED swallowed
           \/ /\ Exists(t)
              /\ dir' = dir
              /\ swallowed' = swallowed \cup {r}
    /\ pc' = [pc EXCEPT ![r] = "returned"]
    /\ ret' = [ret EXCEPT ![r] = [kind |-> "ok", ok |-> FALSE, info |-> <<>>,
                                  detail |-> err[r]]]
    /\ err' = [err EXCEPT ![r] = ""]
    /\ UNCHANGED <<urls, argW, workers, mainpc, idx, dest, attempts, fd, off,
                   content, yielded, results>>

\* ------------------------------------------------------------ specification

Next ==
    \/ MainStart
    \/ MainFinish
    \/ MainCrash
    \/ \E r \in Reqs : Collect(r)
    \/ \E r \in Reqs : Start(r)
    \/ \E r \in Reqs : Resolve(r)
    \/ \E r \in Reqs : GetBegin(r)
    \/ \E r \in Reqs : GetEnd(r)
    \/ \E r \in Reqs : Open(r)
    \/ \E r \in Reqs : WriteChunk(r)
    \/ \E r \in Reqs : StreamFail(r)
    \/ \E r \in Reqs : Rename(r)
    \/ \E r \in Reqs : Cleanup(r)

Spec == Init /\ [][Next]_vars

\* ------------------------------------------------------------ vocabulary

\* main() has ended: normally, at the empty-batch return, or with an exception.
MainEnded == mainpc \in {"done", "returned", "crashed"}

\* The Outcomes the Dispatcher received for request r: the turns of the
\* as_completed loop in which fut.result() returned r's tuple.
OutcomesOf(r) ==
    {k \in 1..Len(yielded) : yielded[k] = r /\ ret[r].kind = "ok"}

\* The errors that arise in a request's own fetch or own write: the HTTP and
\* connection errors of its GET, the break of its stream, the failures of
\* its open, write and rename injected by the filesystem.
OwnErrors ==
    {"HTTPError", "RetryError", "ConnectionError", "ChunkedEncodingError",
     "ReadTimeout", "OSError", "PermissionError", "RenameError"}

\* The requests that hold a resolved destination and are still in download_one.
Assigned == {r \in Reqs : pc[r] \in {"get", "fetching", "open", "write",
                                      "rename", "cleanup"}}

\* The final files: the links whose name is not a temporary name.
FinalLinks == {l \in dir : ~IsPart(l[1])}

\* A complete content: that of a file older than the run, or a whole body of
\* a URL of the batch.
Complete(c) == c = OldContent \/ \E r \in Reqs : urls[r].valid /\ c = Body(urls[r])

\* ------------------------------------------------------------ claims

\* C1: when main has ended, every submitted request has exactly one Outcome
\* (none dropped, none duplicated).
C1_OneOutcomePerRequest ==
    MainEnded => \A r \in Reqs : Cardinality(OutcomesOf(r)) = 1

\* C2: a file at a final name always holds a complete body (or is absent): no
\* final file is ever partial or still open for writing.
C2_FinalFilesComplete ==
    \A l \in FinalLinks : Complete(content[l[2]])

\* C3: two requests that are in download_one at the same time never hold the
\* same destination (and so never the same temporary name).
C3_DistinctDestinations ==
    \A r1, r2 \in Assigned : r1 # r2 => dest[r1] # dest[r2]

\* C4: a request whose own fetch and own write met no error ends Succeeded,
\* whatever happens to the other requests of the batch.
C4_FailureIsolation ==
    \A r \in Reqs :
        (pc[r] = "returned" /\ ret[r].detail \notin OwnErrors) => ret[r].ok

\* C5: no error leaves download_one: no future holds an exception and the
\* as_completed loop is never left by one.
C5_NoErrorEscapes ==
    /\ \A r \in Reqs : pc[r] # "raised"
    /\ mainpc \notin {"unwinding", "crashed"}

\* C6: two distinct URLs with the same base filename, both answered without
\* error, into a directory that held no file of that name: when main is done
\* both Outcomes are Succeeded and name.ext and name_1.ext are two files
\* holding the two bodies.
C6_SameNameBothSucceed ==
    ( /\ mainpc = "done"
      /\ Len(urls) = 2
      /\ urls[1] # urls[2]
      /\ urls[1].valid /\ urls[2].valid
      /\ filename_from_url(urls[1]) = filename_from_url(urls[2])
      /\ content[-1] = <<>>
      /\ \A r \in Reqs : ret[r].detail \notin OwnErrors )
    => LET n0 == filename_from_url(urls[1])
           n1 == candidate(n0, 1)
       IN  /\ ret[1].ok /\ ret[2].ok
           /\ Exists(n0) /\ Exists(n1)
           /\ InoOf(n0) # InoOf(n1)
           /\ {content[InoOf(n0)], content[InoOf(n1)]}
                = {Body(urls[1]), Body(urls[2])}

\* C7: when main is done, the file at the path of every Succeeded Outcome
\* exists and holds the complete body of that Outcome's URL.
C7_SucceededFileHoldsBody ==
    mainpc = "done" =>
        \A r \in Reqs :
            ret[r].ok => /\ Exists(ret[r].info)
                         /\ content[InoOf(ret[r].info)] = Body(urls[r])

\* The directory holds no temporary file.
NoPartFile == \A l \in dir : ~IsPart(l[1])

C9_FinalFilesUntouched ==
    [][\A l \in FinalLinks : l \in dir' /\ content'[l[2]] = content[l[2]]]_vars

\* The session.get calls in progress.
InFlight == {r \in Reqs : pc[r] = "fetching"}

\* C10: the pool has max(1, min(W, n)) workers; at most that many work items
\* run, hence at most that many session.get calls are in progress, and at most
\* W when W >= 1.
C10_ConcurrencyBound ==
    /\ mainpc \notin {"start", "returned"} =>
          workers = (IF argW >= Len(urls) THEN Len(urls)
                     ELSE IF argW >= 1 THEN argW ELSE 1)
    /\ Cardinality(Running) <= workers
    /\ Cardinality(InFlight) <= workers
    /\ argW >= 1 => Cardinality(InFlight) <= argW

\* C10's case: the limit binds: as many GETs as workers are in progress, W of
\* them, while another request waits in the queue.
C10_Witness ==
    /\ argW >= 1
    /\ Cardinality(InFlight) = argW
    /\ workers = argW
    /\ \E r \in Reqs : pc[r] = "queued"

\* C11, in the form a finite run refutes: main never ends before every
\* submitted request has reached Succeeded or Failed.
C11_AllSettledWhenMainEnds ==
    MainEnded => \A r \in Reqs : pc[r] = "returned"

\* The exception a request failed with: caught and not yet returned, or
\* returned as the detail of its Failed Outcome.
FailureOf(r) == IF pc[r] = "cleanup" THEN err[r] ELSE ret[r].detail

\* C12, as claimed: a session.get call makes at most 5 HTTP attempts.
C12_AtMostFiveAttempts ==
    \A r \in Reqs : Len(attempts[r]) <= 5

\* C12, amended: a session.get call makes at most retries + 1 = 6 HTTP
\* attempts (the first and 5 retries), and it has made all of them when it
\* fails with RetryError or ConnectionError.
C12_AtMostSixAttempts ==
    \A r \in Reqs :
        /\ Len(attempts[r]) <= retries + 1
        /\ FailureOf(r) \in {"RetryError", "ConnectionError"}
              => Len(attempts[r]) = retries + 1

\* C12's case: a request whose every attempt was answered 503 has failed.
C12_Witness ==
    \E r \in Reqs : /\ pc[r] = "returned"
                    /\ ret[r].detail = "RetryError"
                    /\ Len(attempts[r]) = retries + 1

\* C13: every response that was followed by another attempt is a
\* connection-level failure or has a status of the forcelist; a response with
\* another 4xx status ends the request Failed with HTTPError after exactly one
\* attempt and before any file was opened.
C13_RetryOnlyListedStatuses ==
    \A r \in Reqs :
        /\ \A k \in 1..(Len(attempts[r]) - 1) :
              \/ attempts[r][k].status = 0
              \/ attempts[r][k].status \in status_forcelist
        /\ \A k \in 1..Len(attempts[r]) :
              ( /\ attempts[r][k].status \in 400..499
                /\ attempts[r][k].status \notin status_forcelist )
              => /\ Len(attempts[r]) = 1
                 /\ pc[r] \in {"cleanup", "returned"}
                 /\ FailureOf(r) = "HTTPError"
                 /\ content[r] = <<>>

\* C14: a request answered 503 then 200, whose transfer then met no error of
\* its own, ends Succeeded.
C14_TransientThenSucceeded ==
    \A r \in Reqs :
        ( /\ pc[r] = "returned"
          /\ attempts[r] = <<Plain(503), Plain(200)>>
          /\ ret[r].detail \notin OwnErrors )
        => ret[r].ok

\* The state of the Fetch Worker's machine a pc belongs to: 0 Pending,
\* 1 Resolving, 2 Fetching, 3 Writing, 4 failing (the except branch),
\* 5 Succeeded or Failed, 6 ended by an exception (no state of the machine).
Stage(p) ==
    CASE p \in {"unsubmitted", "queued"} -> 0
      [] p = "resolve" -> 1
      [] p \in {"get", "fetching"} -> 2
      [] p \in {"open", "write", "rename"} -> 3
      [] p = "cleanup" -> 4
      [] p = "returned" -> 5
      [] OTHER -> 6

\* C15: every step of a request follows Pending, Resolving, Fetching, Writing,
\* Succeeded | Failed, never back; Writing is entered only from Fetching, the
\* rename is reached only by the write of the last chunk, success only by the
\* rename, and a fetch failure leaves for Failed with no file created by the
\* request.
C15_StateMachineOrder ==
    [][\A r \in Reqs :
          pc'[r] # pc[r] =>
            /\ <<Stage(pc[r]), Stage(pc'[r])>> \in
                  {<<0, 0>>, <<0, 1>>, <<1, 2>>, <<2, 2>>, <<2, 3>>, <<2, 4>>,
                   <<3, 3>>, <<3, 4>>, <<3, 5>>, <<4, 5>>}
            /\ pc'[r] = "rename" => (pc[r] = "write" /\ off[r] + 1 = MaxChunks)
            /\ (pc'[r] = "returned" /\ ret'[r].ok) => pc[r] = "rename"
            /\ (Stage(pc[r]) = 2 /\ Stage(pc'[r]) = 4) =>
                  (content[r] = <<>> /\ \A l \in dir : l[2] # r)]_vars

\* Request r takes the step.
Acts(r) == pc'[r] # pc[r] \/ off'[r] # off[r] \/ idx'[r] # idx[r]

\* C16: a step of a request removes, renames or changes the content of a
\* .part file only if that request created the file (the inode of a file a
\* request creates carries the request's number).
C16_TempOwnedByCreator ==
    [][\A r \in Reqs :
          Acts(r) =>
            \A l \in dir :
                (IsPart(l[1]) /\ (l \notin dir' \/ content'[l[2]] # content[l[2]]))
                    => l[2] = r]_vars

\* C17: a request that failed on a timeout (at connect or before the headers:
\* ConnectionError; while reading the body: ReadTimeout) has used its whole
\* retry budget first.
C17_TimeoutsRetried ==
    \A r \in Reqs :
        (pc[r] = "returned" /\ ret[r].detail \in {"ConnectionError", "ReadTimeout"})
            => Len(attempts[r]) = retries + 1

\* The requests whose Outcome is Failed.
FailedReqs == {r \in Reqs : ret[r].kind = "ok" /\ ~ret[r].ok}

\* C18: when main has ended, the failure list holds one (url, detail) pair per
\* Failed Outcome and nothing else.
C18_SummaryExact ==
    MainEnded =>
        /\ Len(results) = Cardinality(FailedReqs)
        /\ \A r \in FailedReqs :
              \E k \in 1..Len(results) : results[k] = <<urls[r], ret[r].detail>>
        /\ \A k \in 1..Len(results) :
              \E r \in FailedReqs : results[k] = <<urls[r], ret[r].detail>>

\* C19: when resolve_collision returns, no file exists at the returned path;
\* the path is the given one if no file exists there, and otherwise name_i for
\* the smallest i >= 1 with no file at name_i; and its counter never exceeds
\* the number of final files of the directory (so the loop ends).
C19_ResolveCollision ==
    /\ [](\A r \in Reqs : idx[r] <= Cardinality(FinalLinks))
    /\ [][\A r \in Reqs :
            (pc[r] = "resolve" /\ pc'[r] = "get") =>
               LET n == filename_from_url(urls[r])
               IN  /\ ~Exists(dest'[r])
                   /\ ~Exists(n) => dest'[r] = n
                   /\ Exists(n) =>
                        \E i \in 1..Len(IdxTok) :
                           /\ dest'[r] = candidate(n, i)
                           /\ \A j \in 1..(i - 1) : Exists(candidate(n, j))]_vars

\* C19's case: name and name_1 exist and the request was given name_2.
C19_Witness ==
    \E r \in Reqs :
        /\ urls[r].valid
        /\ dest[r] = candidate(filename_from_url(urls[r]), 2)

\* C20: a request whose cleanup swallowed an error of unlink has returned a
\* Failed Outcome, no exception, and the detail is the error that sent it to
\* the except branch.
C20_UnlinkErrorSwallowed ==
    /\ [](\A r \in swallowed :
             /\ pc[r] = "returned"
             /\ ret[r].kind = "ok"
             /\ ~ret[r].ok
             /\ ret[r].detail \in OwnErrors \cup {"FileNotFoundError"})
    /\ [][\A r \in Reqs :
            (r \in swallowed' /\ r \notin swallowed) =>
                (pc[r] = "cleanup" /\ err[r] # "" /\ ret'[r].detail = err[r])]_vars

\* C20's case: the rename failed, then the unlink failed, and the request
\* has returned.
C20_Witness ==
    \E r \in swallowed : pc[r] = "returned" /\ ret[r].detail = "RenameError"

====
